---- MODULE Spec2Model ----
(***************************************************************************)
(* The document question-answering chat scripts streamlit_refer.py and     *)
(* test.py.  Both are Streamlit scripts: main() is run once per user event *)
(* (a click on "Process", a submitted question), and what survives from    *)
(* one run to the next is st.session_state: conversation, chat_history,    *)
(* processComplete and messages.  The conversation object is the           *)
(* ConversationalRetrievalChain built by get_conversation_chain; it owns   *)
(* the vector index it retrieves from and the ConversationBufferMemory it  *)
(* resends to the chat model.                                              *)
(*                                                                         *)
(* Spec        the session: Process runs and question runs of either script*)
(* SpecGetText the loop of get_text over one upload batch                  *)
(* SpecSources the loop that displays the sources of one retrieval result  *)
(***************************************************************************)
EXTENDS Integers, Sequences, FiniteSets, TLC

VARIABLES
    app,              \* which script the session runs: "refer" or "test"
    conversation,     \* st.session_state.conversation
    chat_history,     \* st.session_state.chat_history (its one assignment is never reached)
    processComplete,  \* st.session_state.processComplete
    messages,         \* st.session_state.messages
    run,              \* what the last script run did (observation)
    answered,         \* every answered turn of the session, in order (observation)
    runs,             \* number of event-triggered script runs so far
    docs,             \* get_text: the upload batch being read
    doc_list,         \* get_text: the list built so far
    pos,              \* get_text: index of the next file of the loop
    raised,           \* get_text: a loader's exception ended the loop
    source_documents, \* sources display: result['source_documents']
    shown,            \* sources display: labels rendered so far
    spos              \* sources display: index of the next document of the loop

vars == <<app, conversation, chat_history, processComplete, messages, run,
          answered, runs, docs, doc_list, pos, raised, source_documents, shown,
          spos>>

sessionVars == <<app, conversation, chat_history, processComplete, messages,
                 run, answered, runs>>
getTextVars == <<docs, doc_list, pos, raised>>
sourcesVars == <<source_documents, shown, spos>>

----------------------------------------------------------------------------
(* Bounds of the model *)

\* script runs (events) followed in one session
MaxRuns == 4
\* files in one batch handed to get_text
MaxFiles == 2
\* documents one loader returns for one file
MaxPages == 2
\* documents in one retrieval result handed to the display loop
MaxDocs == 3

----------------------------------------------------------------------------
(* Inputs *)

Apps == {"refer", "test"}

NoKey == ""
ValidKey == "sk-valid"
InvalidKey == "sk-invalid"
Keys == {NoKey, ValidKey, InvalidKey}

Names == {"a", "b"}
Questions == {"q1", "q2"}
Answers == {"r1", "r2"}

PDF == "application/pdf"
DOCX == "application/vnd.openxmlformats-officedocument.wordprocessingml.document"
PPTX == "application/vnd.openxmlformats-officedocument.presentationml.presentation"
CSV == "text/csv"
OtherType == "text/plain"

LoaderTypes == {PDF, DOCX, PPTX}
SupportedTypes == LoaderTypes \cup {CSV}
AllTypes == SupportedTypes \cup {OtherType}

\* st.file_uploader(type=[...]): the extensions the uploader widget accepts
UploaderTypes(a) == IF a = "refer" THEN {PDF, PPTX, DOCX, CSV} ELSE {PDF, PPTX, CSV}

\* An uploaded file: its name, its MIME type and the number of documents its
\* loader's load_and_split() returns (a CSV always becomes one document).
FilesOf(types) ==
    [name : Names, type : types \cap LoaderTypes, pages : 0..MaxPages]
    \cup [name : Names, type : types \ LoaderTypes, pages : {1}]

File(name, type, pages) == [name |-> name, type |-> type, pages |-> pages]

\* The upload batches a session is followed on: none, a file that becomes one
\* document, a file that becomes several, a file whose loader returns nothing,
\* and batches of two files; of these, the ones the script's uploader accepts.
SessionUploads(a) ==
    {batch \in {<<>>,
                <<File("a", CSV, 1)>>,
                <<File("a", PDF, 2)>>,
                <<File("b", PPTX, 0)>>,
                <<File("a", DOCX, 1)>>,
                <<File("b", PPTX, 0), File("a", CSV, 1)>>,
                <<File("a", PDF, 1), File("b", CSV, 1)>>} :
        \A i \in 1..Len(batch) : batch[i].type \in UploaderTypes(a)}

RECURSIVE SeqsUpTo(_, _)
SeqsUpTo(S, n) ==
    IF n = 0 THEN {<<>>}
    ELSE LET shorter == SeqsUpTo(S, n - 1)
         IN shorter \cup {Append(s, x) : s \in {t \in shorter : Len(t) = n - 1}, x \in S}

IsPrefix(s, t) == Len(s) <= Len(t) /\ SubSeq(t, 1, Len(s)) = s

----------------------------------------------------------------------------
(* get_text *)

\* a Document (isDocument) or, for test.py's CSV branch, a bare string
Doc(name, page, isDocument) == [source |-> name, page |-> page, isDocument |-> isDocument]

\* the documents one file adds to doc_list: one branch of the if/elif chain
FileDocumentsKeepsUnknown(a, f) ==
    IF f.type \in LoaderTypes
    THEN [i \in 1..f.pages |-> Doc(f.name, i, TRUE)]
    ELSE <<Doc(f.name, 1, a = "refer")>>

FileDocuments(a, f) ==
    IF f.type \in LoaderTypes
    THEN [i \in 1..f.pages |-> Doc(f.name, i, TRUE)]
    ELSE IF f.type = CSV
    THEN IF a = "refer"
         THEN <<Doc(f.name, 1, TRUE)>>
         ELSE <<Doc(f.name, 1, FALSE)>>
    ELSE <<>>

RECURSIVE GetText(_, _)
GetText(a, files) ==
    IF files = <<>> THEN <<>>
    ELSE FileDocuments(a, Head(files)) \o GetText(a, Tail(files))

----------------------------------------------------------------------------
(* The ingestion pipeline of a Process run *)

\* RecursiveCharacterTextSplitter.split_documents with length_function =
\* tiktoken_len.  The splitter measures every piece of text it is given with
\* tiktoken_len; test.py never imports tiktoken, so there the first measurement
\* raises NameError (and a bare string of its CSV branch has no page_content).
\* An empty list is split without measuring anything.  Each document is taken
\* to fit one window, so it yields one chunk that keeps its source.
ChunkingRaises(a, documents) == a = "test" /\ documents # <<>>

Chunk(d) == [source |-> d.source, page |-> d.page]

get_text_chunks(documents) == [i \in 1..Len(documents) |-> Chunk(documents[i])]

\* FAISS.from_documents: the index holds every chunk; it cannot be built from
\* an empty list (the dimension is read off the first embedding).
IndexRaises(chunks) == chunks = <<>>

get_vectorstore(chunks) == chunks

\* a fresh ConversationBufferMemory(memory_key='chat_history', ...)
NewMemory == <<>>

\* st.session_state.conversation = None
None == [built |-> FALSE, key |-> NoKey, index |-> <<>>, memory |-> <<>>]

\* ChatOpenAI(openai_api_key=...) + ConversationalRetrievalChain.from_llm(...):
\* the key is stored, not checked; the memory is created here.
get_conversation_chain(vectorstore, openai_api_key) ==
    [built |-> TRUE, key |-> openai_api_key, index |-> vectorstore, memory |-> NewMemory]

\* the two st.warning / st.stop() guards that open a Process run
ConfigErrorKeyOnly(openai_api_key, uploaded_files) == openai_api_key = NoKey

ConfigError(openai_api_key, uploaded_files) ==
    openai_api_key = NoKey \/ uploaded_files = <<>>

\* Library failures a Process run can meet (a malformed document, the
\* tokenizer or embedding model not loading, the chat client not constructing)
LibFailures == {"none", "load", "chunk", "embed", "chain"}

\* The pipeline of lines 47-51 up to the first exception: the stages entered
\* and, when every stage returned, the new chain.
Pipeline(a, key, files, libfail) ==
    LET documents == GetText(a, files)
        chunks    == get_text_chunks(documents)
    IN  IF libfail = "load"
        THEN [ok |-> FALSE, steps |-> {"load"}, chain |-> None]
        ELSE IF libfail = "chunk" \/ ChunkingRaises(a, documents)
        THEN [ok |-> FALSE, steps |-> {"load", "chunk"}, chain |-> None]
        ELSE IF libfail = "embed" \/ IndexRaises(chunks)
        THEN [ok |-> FALSE, steps |-> {"load", "chunk", "embed"}, chain |-> None]
        ELSE IF libfail = "chain"
        THEN [ok |-> FALSE, steps |-> {"load", "chunk", "embed", "chain"}, chain |-> None]
        ELSE [ok |-> TRUE, steps |-> {"load", "chunk", "embed", "chain"},
              chain |-> get_conversation_chain(get_vectorstore(chunks), key)]

\* session_state after a Process run that raised or stopped: nothing was assigned
ProcessAbortMarksComplete(conv, complete) ==
    [conversation |-> conv, processComplete |-> TRUE]

ProcessAbort(conv, complete) ==
    [conversation |-> conv, processComplete |-> complete]

\* session_state after lines 51-53
ProcessCommit(chain) ==
    [conversation |-> chain, processComplete |-> TRUE]

----------------------------------------------------------------------------
(* The observation of one script run *)

IdleRun ==
    [op |-> "load", outcome |-> "ok", error |-> "", key |-> NoKey, nofiles |-> TRUE,
     steps |-> {}, query |-> "", unbuilt |-> TRUE, calls |-> <<>>,
     history |-> <<>>, prior |-> <<>>, retrieved |-> 0, answer |-> "",
     returned |-> FALSE]

ProcessRun(key, files, outcome, steps) ==
    [IdleRun EXCEPT !.op = "process", !.outcome = outcome,
                    !.error = IF outcome = "error" THEN "pipeline" ELSE "",
                    !.key = key, !.nofiles = (files = <<>>), !.steps = steps]

----------------------------------------------------------------------------
(* A Process run: the button was clicked *)

Process(key, files, libfail) ==
    /\ runs < MaxRuns
    /\ runs' = runs + 1
    /\ LET p == Pipeline(app, key, files, libfail)
           s == IF ConfigError(key, files) \/ ~p.ok
                THEN ProcessAbort(conversation, processComplete)
                ELSE ProcessCommit(p.chain)
       IN  /\ conversation' = s.conversation
           /\ processComplete' = s.processComplete
           /\ run' = IF ConfigError(key, files)
                     THEN ProcessRun(key, files, "stopped", {})
                     ELSE ProcessRun(key, files, IF p.ok THEN "ok" ELSE "error", p.steps)
    /\ UNCHANGED <<app, chat_history, messages, answered>>
    /\ UNCHANGED <<getTextVars, sourcesVars>>

----------------------------------------------------------------------------
(* A question run *)

Message(role, content) == [role |-> role, content |-> content]

\* the greeting each script seeds st.session_state.messages with
Greeting(a) ==
    IF a = "refer" THEN Message("assistant", "greeting") ELSE Message("system", "greeting")

\* st.session_state.messages.append({"role": "user", "content": query})
AppendUserWithPlaceholder(msgs, query) ==
    msgs \o <<Message("user", query), Message("assistant", "")>>

AppendUser(msgs, query) == Append(msgs, Message("user", query))

\* st.session_state.messages.append({"role": "assistant", "content": response})
AppendAssistant(msgs, response) == Append(msgs, Message("assistant", response))

\* ConversationBufferMemory.save_context (output_key='answer'): the question
\* asked and the answer returned are appended to the buffer, in that order.
SaveContextAnswerFirst(memory, question, answer) ==
    memory \o <<Message("ai", answer), Message("human", question)>>

SaveContext(memory, question, answer) ==
    memory \o <<Message("human", question), Message("ai", answer)>>

\* as_retriever(search_type='mmr'): the number of chunks one search returns
RetrieverK == 4

Min(x, y) == IF x < y THEN x ELSE y

\* Where the remote chat model can fail during one chain call
RemoteFailures == {"none", "condense", "answer"}

\* chain({"question": query}) on a built chain.  With a non-empty buffer the
\* chain first sends the whole buffer (get_chat_history = lambda h: h, so
\* unsummarized) and the question to the chat model to condense them; then it
\* retrieves, sends the retrieved chunks and the question to the chat model,
\* and on success saves the turn.  Each remote call is made once; an
\* exception of either leaves the buffer as it was.  A key the service
\* rejects fails the first remote call.
ChainCall(chain, query, remote, answer) ==
    LET history   == chain.memory
        condense  == history # <<>>
        rejected  == chain.key # ValidKey
        found     == Min(RetrieverK, Len(chain.index))
    IN  IF condense /\ (rejected \/ remote = "condense")
        THEN [ok |-> FALSE, calls |-> <<"condense">>, history |-> history,
              retrieved |-> 0, answer |-> "", memory |-> history]
        ELSE IF rejected \/ remote = "answer"
        THEN [ok |-> FALSE,
              calls |-> IF condense THEN <<"condense", "answer">> ELSE <<"answer">>,
              history |-> history, retrieved |-> found, answer |-> "", memory |-> history]
        ELSE [ok |-> TRUE,
              calls |-> IF condense THEN <<"condense", "answer">> ELSE <<"answer">>,
              history |-> history, retrieved |-> found, answer |-> answer,
              memory |-> SaveContext(history, query, answer)]

AskRun(query, outcome, error, r) ==
    [IdleRun EXCEPT !.op = "ask", !.outcome = outcome, !.error = error,
                    !.query = query, !.unbuilt = ~conversation.built,
                    !.calls = r.calls, !.history = r.history, !.prior = answered,
                    !.retrieved = r.retrieved, !.answer = r.answer,
                    !.returned = r.ok]

NoCall == [ok |-> FALSE, calls |-> <<>>, history |-> <<>>, retrieved |-> 0,
           answer |-> "", memory |-> <<>>]

\* streamlit_refer.py, lines 66-88.  The question is appended; the chain is
\* called whether or not one was built (None is not callable: TypeError);
\* after the call returns, line 77 names get_openai_callback, which the script
\* never imports: NameError, so chat_history, the rendering of the answer and
\* of its sources, and the append of line 88 are never reached.
AskRefer(query, remote, answer) ==
    LET r == IF conversation.built THEN ChainCall(conversation, query, remote, answer)
             ELSE NoCall
    IN  /\ messages' = AppendUser(messages, query)
        /\ conversation' = IF r.ok THEN [conversation EXCEPT !.memory = r.memory]
                           ELSE conversation
        /\ answered' = IF r.ok THEN SaveContext(answered, query, answer) ELSE answered
        /\ run' = IF ~conversation.built THEN AskRun(query, "error", "TypeError", r)
                  ELSE IF ~r.ok THEN AskRun(query, "error", "remote", r)
                  ELSE AskRun(query, "error", "NameError", r)
        /\ UNCHANGED <<chat_history, processComplete>>

\* test.py, lines 57-73.  The question box exists only once processComplete
\* is set; the chain is called only if one is stored.  (No Process run of
\* test.py gets as far as line 52: a non-empty document list stops at
\* ChunkingRaises, an empty one at IndexRaises.)
AskTest(query, remote, answer) ==
    LET r == IF conversation.built THEN ChainCall(conversation, query, remote, answer)
             ELSE NoCall
    IN  /\ messages' = IF r.ok THEN AppendAssistant(AppendUser(messages, query), r.answer)
                       ELSE AppendUser(messages, query)
        /\ conversation' = IF r.ok THEN [conversation EXCEPT !.memory = r.memory]
                           ELSE conversation
        /\ answered' = IF r.ok THEN SaveContext(answered, query, answer) ELSE answered
        /\ run' = IF ~conversation.built THEN AskRun(query, "ok", "", r)
                  ELSE IF ~r.ok THEN AskRun(query, "error", "remote", r)
                  ELSE AskRun(query, "ok", "", r)
        /\ UNCHANGED <<chat_history, processComplete>>

Ask(query, remote, answer) ==
    /\ runs < MaxRuns
    /\ app = "test" => processComplete
    /\ remote = "condense" => conversation.memory # <<>>
    /\ runs' = runs + 1
    /\ IF app = "refer" THEN AskRefer(query, remote, answer)
                        ELSE AskTest(query, remote, answer)
    /\ UNCHANGED <<app, getTextVars, sourcesVars>>

----------------------------------------------------------------------------
(* The session *)

\* the state after the page's first load: lines 27-34 and 55-57
Init ==
    /\ app \in Apps
    /\ conversation = None
    /\ chat_history = <<>>
    /\ processComplete = FALSE
    /\ messages = <<Greeting(app)>>
    /\ run = IdleRun
    /\ answered = <<>>
    /\ runs = 0
    /\ docs = <<>>
    /\ doc_list = <<>>
    /\ pos = 1
    /\ raised = FALSE
    /\ source_documents = <<>>
    /\ shown = <<>>
    /\ spos = 1

ProcessStep ==
    \E key \in Keys, files \in SessionUploads(app),
       libfail \in LibFailures :
        Process(key, files, libfail)

AskStep ==
    \E query \in Questions, remote \in RemoteFailures, answer \in Answers :
        Ask(query, remote, answer)

Next == ProcessStep \/ AskStep

Spec == Init /\ [][Next]_vars

----------------------------------------------------------------------------
(* get_text on its own: the for loop of lines 102-119, one file per step *)

InitGetText ==
    /\ app \in Apps
    /\ conversation = None
    /\ chat_history = <<>>
    /\ processComplete = FALSE
    /\ messages = <<Greeting(app)>>
    /\ run = IdleRun
    /\ answered = <<>>
    /\ runs = 0
    /\ docs \in SeqsUpTo(FilesOf(AllTypes), MaxFiles)
    /\ doc_list = <<>>
    /\ pos = 1
    /\ raised = FALSE
    /\ source_documents = <<>>
    /\ shown = <<>>
    /\ spos = 1

\* one iteration: the branch of the file's type extends doc_list
GetTextStep ==
    /\ ~raised
    /\ pos <= Len(docs)
    /\ doc_list' = doc_list \o FileDocuments(app, docs[pos])
    /\ pos' = pos + 1
    /\ UNCHANGED <<docs, raised>>
    /\ UNCHANGED <<sessionVars, sourcesVars>>

\* one iteration whose loader (or pd.read_csv) raises on a malformed file:
\* nothing catches it, so get_text ends there
GetTextRaise ==
    /\ ~raised
    /\ pos <= Len(docs)
    /\ docs[pos].type \in SupportedTypes
    /\ raised' = TRUE
    /\ UNCHANGED <<docs, doc_list, pos>>
    /\ UNCHANGED <<sessionVars, sourcesVars>>

NextGetText == GetTextStep \/ GetTextRaise

SpecGetText == InitGetText /\ [][NextGetText]_vars

----------------------------------------------------------------------------
(* The sources display on its own: the for loop under the expander *)

Chunks == [source : Names, page : 1..MaxPages]

\* the label one iteration renders: doc.metadata['source']
SourceLabel(d) == d.source

InitSources ==
    /\ app \in Apps
    /\ conversation = None
    /\ chat_history = <<>>
    /\ processComplete = FALSE
    /\ messages = <<Greeting(app)>>
    /\ run = IdleRun
    /\ answered = <<>>
    /\ runs = 0
    /\ docs = <<>>
    /\ doc_list = <<>>
    /\ pos = 1
    /\ raised = FALSE
    /\ source_documents \in SeqsUpTo(Chunks, MaxDocs)
    /\ shown = <<>>
    /\ spos = 1

\* one iteration: st.markdown of the document's source label
ShowSource ==
    /\ spos <= Len(source_documents)
    /\ shown' = Append(shown, SourceLabel(source_documents[spos]))
    /\ spos' = spos + 1
    /\ UNCHANGED source_documents
    /\ UNCHANGED <<sessionVars, getTextVars>>

NextSources == ShowSource

SpecSources == InitSources /\ [][NextSources]_vars

----------------------------------------------------------------------------
(* Properties of the session (Spec) *)

\* the step is an event-triggered run of the given kind
IsRun(op) == runs' = runs + 1 /\ run'.op = op

\* C1: a Process run with an empty API key or with no uploaded files is
\* stopped before any stage of the pipeline (loading, chunking, embedding and
\* index build, chain construction) is entered, and leaves conversation and
\* processComplete exactly as they were.
C1_BlockedProcessConsumesNothing ==
    [][(IsRun("process") /\ (run'.key = NoKey \/ run'.nofiles))
        => /\ run'.outcome = "stopped"
           /\ run'.steps = {}
           /\ conversation' = conversation
           /\ processComplete' = processComplete]_vars

\* a Process run on an empty batch with a key given, stopped with an earlier
\* session in place
C1_Witness ==
    /\ run.op = "process"
    /\ run.nofiles
    /\ run.key # NoKey
    /\ run.outcome = "stopped"
    /\ processComplete
    /\ conversation.built

\* C2: a Process run whose API key is empty, or non-empty but invalid, stores
\* no conversation and does not set processComplete.
C2_BadKeyBuildsNoSession ==
    [][(IsRun("process") /\ run'.key # ValidKey)
        => /\ conversation' = conversation
           /\ processComplete' = processComplete]_vars

C5_PromptHoldsWholeSession ==
    (run.op = "ask" /\ run.calls # <<>>) => run.history = run.prior

\* C6: the transcript the conversation resends only ever grows: after every
\* step it is an extension of what it was before.
C6_TranscriptAppendOnly ==
    [][IsPrefix(conversation.memory, conversation'.memory)]_vars

\* C7: a question asked while no conversation has been built raises no error
\* and retrieves nothing.
C7_UnbuiltAskIsQuiet ==
    (run.op = "ask" /\ run.unbuilt) => (run.outcome # "error" /\ run.retrieved = 0)

\* C10: processComplete is set only while a conversation is stored, and a
\* Process run that does not finish (stopped by a configuration error or
\* ended by an exception) leaves conversation and processComplete as they were.
C10_CompleteOnlyWithConversation ==
    /\ [](processComplete => conversation.built)
    /\ [][(IsRun("process") /\ run'.outcome # "ok")
           => /\ conversation' = conversation
              /\ processComplete' = processComplete]_vars

\* a Process run ended by an exception, with an earlier session in place
C10_Witness ==
    /\ run.op = "process"
    /\ run.outcome = "error"
    /\ run.steps # {}
    /\ processComplete
    /\ conversation.built

----------------------------------------------------------------------------
(* Properties of get_text (SpecGetText) *)

IsSupported(f) == f.type \in SupportedTypes

\* C8: a file of an unsupported type adds nothing to the list and raises
\* nothing; what the list holds after any number of iterations is what the
\* supported files read so far alone give, in upload order; a batch of
\* unsupported files only gives the empty list.
C8_UnsupportedSkipped ==
    /\ doc_list = GetText(app, SelectSeq(SubSeq(docs, 1, pos - 1), IsSupported))
    /\ raised => IsSupported(docs[pos])
    /\ (\A i \in 1..Len(docs) : ~IsSupported(docs[i]))
         => (~raised /\ doc_list = <<>>)

\* a finished loop over a batch that mixes a supported file that gave
\* documents with an unsupported one
C8_Witness ==
    /\ pos > Len(docs)
    /\ ~raised
    /\ \E i \in 1..Len(docs) : ~IsSupported(docs[i])
    /\ \E i \in 1..Len(docs) : IsSupported(docs[i])
    /\ doc_list # <<>>

----------------------------------------------------------------------------
(* Properties of the sources display (SpecSources) *)

RECURSIVE FirstOccurrences(_)
FirstOccurrences(s) ==
    IF s = <<>> THEN <<>>
    ELSE LET front == FirstOccurrences(SubSeq(s, 1, Len(s) - 1))
             last  == s[Len(s)]
         IN  IF \E i \in 1..Len(front) : front[i] = last THEN front
             ELSE Append(front, last)

\* C9: once the loop is over, each distinct source label of the retrieval
\* result has been shown exactly once, in the order of its first occurrence.
C9_SourcesShownOnce ==
    spos > Len(source_documents)
        => shown = FirstOccurrences([i \in 1..Len(source_documents) |->
                                        SourceLabel(source_documents[i])])

====
